---- MODULE Spec2Model ----
(***************************************************************************)
(* Model of the incidence-matrix engine of the dobble package:             *)
(*   dobble/planes.py     _get_permutation_matrix, compute_incidence_matrix *)
(*   dobble/utils.py      is_prime, is_prime_power, is_valid_permutation    *)
(*   dobble/constants.py  the kernel table of the prime powers 4 and 8      *)
(*   dobble/visual.py     Visual: rotation, rotate, reset_rotation          *)
(*   dobble/emoji.py      Emoji: rotation, rotate, reset_rotation           *)
(*   dobble/card.py       Card: __init__, shuffle_emojis, rotate_emojis,    *)
(*                        reset_emoji_rotations, get_layout                 *)
(*   dobble/dobble.py     create_dobble_deck and the files it makes         *)
(*                                                                         *)
(* Conventions.  A two-dimensional numpy array is a function               *)
(* [0..rows-1 -> [0..cols-1 -> Int]], indexed from 0 as in the source.  A   *)
(* one-dimensional array (a permutation) is a sequence: Python's index k   *)
(* is index k+1 here, see At.  planes.py reads the kernel table under the  *)
(* name constants.FPP_KERNELS; constants.py holds the table's data under   *)
(* the name PERMUTATIONS.  The model gives the data of constants.py to the *)
(* name planes.py reads.                                                   *)
(***************************************************************************)
EXTENDS Integers, Sequences, FiniteSets, TLC

VARIABLES
    FPP_KERNELS,    \* the kernel table, the module-level data every call reads
    call,           \* call[t]: the frame of the operation running on thread t
    first,          \* observer: the outcome of the first finished call
    visual,         \* a Visual or an Emoji object
    card,           \* a Card object
    reply,          \* what the last call on the card returned or raised
    disk            \* the directories and the files of the file system

\* the objects of the program other than the frames of the calls
world == <<visual, card, reply, disk>>

vars == <<FPP_KERNELS, call, first, world>>

(***************************************************************************)
(* Bounds of the model.                                                    *)
(***************************************************************************)
\* compute_incidence_matrix is called with every order in -MaxNeg..MaxOrder
MaxOrder == 10
MaxNeg == 7
\* orders of the calls that run concurrently: 0..MaxConcOrder
MaxConcOrder == 5
\* orders of the calls whose outcomes are compared: 0..MaxDetOrder
MaxDetOrder == 8
\* _get_permutation_matrix is called with every sequence of at most
\* MaxPermLen values drawn from 0..MaxPermLen+1
MaxPermLen == 4
\* is_prime and is_prime_power are called with every integer of
\* -MaxNeg..MaxNum
MaxNum == 130
\* orders of the calls whose kernel blocks are placed in any order:
\* 0..MaxAnyOrder
MaxAnyOrder == 3
\* rotate and the constructors are called with every whole number of
\* degrees in -MaxDegrees..MaxDegrees
MaxDegrees == 190
\* and with the multiples -MaxTiny..MaxTiny of a float far below the
\* spacing of the doubles at 360 (such as 1e-20)
MaxTiny == 2
\* the cards hold at most MaxEmojis emojis; the lists and permutations the
\* card's methods are called with have at most MaxEmojis entries
MaxEmojis == 3

\* the lists rotate_emojis and reset_emoji_rotations are called with have
\* at most MaxEntries entries
MaxEntries == 2

\* create_dobble_deck is called with at most MaxDeckEmojis emojis and at
\* most MaxPerCard emojis per card
MaxDeckEmojis == 13

MaxPerCard == 4

Threads == {1, 2}

\* larger orders the tests and the specification name as rejected
SampleOrders == {14, 16, 25}

Orders == (-MaxNeg .. MaxOrder) \cup SampleOrders

ConcOrders == 0 .. MaxConcOrder

DetOrders == 0 .. MaxDetOrder

AnyOrders == 0 .. MaxAnyOrder

(***************************************************************************)
(* Arrays.                                                                 *)
(***************************************************************************)
Range(s) == {s[k] : k \in DOMAIN s}

\* permutation[k], Python's 0-based index on a sequence
At(p, k) == p[k + 1]

\* np.zeros((rows, cols), dtype=np.uint8)
Zeros(rows, cols) == [r \in 0 .. rows - 1 |-> [c \in 0 .. cols - 1 |-> 0]]

\* np.eye(n, dtype=np.uint8)
Eye(n) == [r \in 0 .. n - 1 |-> [c \in 0 .. n - 1 |-> IF r = c THEN 1 ELSE 0]]

NumRows(M) == Cardinality(DOMAIN M)

NumCols(M) == IF DOMAIN M = {} THEN 0 ELSE Cardinality(DOMAIN M[0])

\* M[r, c0:c1] = 1   (a slice is clipped to the array, an index is not)
SetRowSlice(M, r, c0, c1) ==
    [M EXCEPT ![r] = [c \in DOMAIN M[r] |->
                        IF c0 <= c /\ c < c1 THEN 1 ELSE M[r][c]]]

\* M[r0:r1, c] = 1
SetColSlice(M, r0, r1, c) ==
    [r \in DOMAIN M |->
        IF r0 <= r /\ r < r1 THEN [M[r] EXCEPT ![c] = 1] ELSE M[r]]

\* M[r0:r0+n, c0:c0+n] = B for an n x n array B lying inside M
SetBlock(M, r0, c0, B) ==
    [r \in DOMAIN M |->
        IF (r - r0) \in DOMAIN B
        THEN [c \in DOMAIN M[r] |->
                IF (c - c0) \in DOMAIN B[r - r0] THEN B[r - r0][c - c0] ELSE M[r][c]]
        ELSE M[r]]

(***************************************************************************)
(* dobble/constants.py: the kernel table.                                  *)
(***************************************************************************)
\* mutant: the second and third permutation of the first row exchanged
PERMUTATIONS_4_Mistyped ==
    << << <<2, 1, 4, 3>>, <<4, 3, 2, 1>>, <<3, 4, 1, 2>> >>,
       << <<3, 4, 1, 2>>, <<4, 3, 2, 1>>, <<2, 1, 4, 3>> >>,
       << <<4, 3, 2, 1>>, <<2, 1, 4, 3>>, <<3, 4, 1, 2>> >> >>

PERMUTATIONS_4 ==
    << << <<2, 1, 4, 3>>, <<3, 4, 1, 2>>, <<4, 3, 2, 1>> >>,
       << <<3, 4, 1, 2>>, <<4, 3, 2, 1>>, <<2, 1, 4, 3>> >>,
       << <<4, 3, 2, 1>>, <<2, 1, 4, 3>>, <<3, 4, 1, 2>> >> >>

M1 == <<2, 1, 4, 3, 6, 5, 8, 7>>
M2 == <<3, 4, 1, 2, 7, 8, 5, 6>>
M3 == <<4, 3, 2, 1, 8, 7, 6, 5>>
M4 == <<5, 6, 7, 8, 1, 2, 3, 4>>
\* mutant: the last entry of _M5 mistyped, 4 twice and no 3
M5_Repeated == <<6, 5, 8, 7, 2, 1, 4, 4>>

M5 == <<6, 5, 8, 7, 2, 1, 4, 3>>
M6 == <<7, 8, 5, 6, 3, 4, 1, 2>>
M7 == <<8, 7, 6, 5, 4, 3, 2, 1>>

PERMUTATIONS_8 ==
    << <<M1, M2, M3, M4, M5, M6, M7>>,
       <<M2, M6, M4, M1, M3, M7, M5>>,
       <<M3, M4, M7, M5, M6, M1, M2>>,
       <<M4, M1, M5, M3, M7, M2, M6>>,
       <<M5, M3, M6, M7, M2, M4, M1>>,
       <<M6, M7, M1, M2, M4, M5, M3>>,
       <<M7, M5, M2, M6, M1, M3, M4>> >>

PERMUTATIONS == [n \in {4, 8} |-> IF n = 4 THEN PERMUTATIONS_4 ELSE PERMUTATIONS_8]

(***************************************************************************)
(* dobble/utils.py                                                         *)
(***************************************************************************)
\* int(num ** 0.5) for an integer num >= 0
IntSqrt(num) == CHOOSE s \in 0 .. num : s * s <= num /\ (s + 1) * (s + 1) > num

\* mutant: range(2, int(num ** 0.5)), the square root itself is never tried
is_prime_exclusive(num) ==
    IF num <= 1
    THEN FALSE
    ELSE \A i \in 2 .. IntSqrt(num) - 1 : num % i # 0

\* is_prime, for an integer argument: trial division by 2 .. int(sqrt(num))
is_prime(num) ==
    IF num <= 1
    THEN FALSE
    ELSE \A i \in 2 .. IntSqrt(num) : num % i # 0

\* int(math.log2(num)) for an integer num >= 1
RECURSIVE FloorLog2(_)
FloorLog2(num) == IF num < 2 THEN 0 ELSE 1 + FloorLog2(num \div 2)

\* the least c with 2^c >= i
CeilLog2(i) == IF i <= 1 THEN 0 ELSE 1 + FloorLog2(i - 1)

IsPowerOfTwo(n) == n >= 1 /\ 2 ^ FloorLog2(n) = n

\* base^exponent mod modulus, by repeated multiplication
RECURSIVE PowMod(_, _, _)
PowMod(base, exponent, modulus) ==
    IF exponent = 0
    THEN 1 % modulus
    ELSE (PowMod(base, exponent - 1, modulus) * base) % modulus

\* r^i, or some value above cap when r^i > cap
RECURSIVE PowUpTo(_, _, _)
PowUpTo(r, i, cap) ==
    IF i = 0
    THEN 1
    ELSE LET p == PowUpTo(r, i - 1, cap) IN IF p > cap THEN p ELSE p * r

\* the integer r with r^i = num, 0 when num is not a perfect i-th power
ExactRoot(num, i) ==
    LET candidates == IF i = 1 THEN {num} ELSE 2 .. IntSqrt(num)
    IN  IF \E r \in candidates : PowUpTo(r, i, num) = num
        THEN CHOOSE r \in candidates : PowUpTo(r, i, num) = num
        ELSE 0

\* 1 / i is the double nearest to the real 1/i.  For i not a power of two it
\* is a multiple of 2^-S with S = 52 + CeilLog2(i), and
\* i * (1 / i) = 1 + ReciprocalError(i) / 2^S exactly.
ReciprocalError(i) ==
    LET S == 52 + CeilLog2(i)
        q == PowMod(2, S, i)
    IN  IF 2 * q < i THEN 0 - q ELSE i - q

\* 1000 * ln(r), rounded, for r = 1 .. 21: the roots r of the perfect i-th
\* powers below 10648 with i >= 3
LnMilli ==
    << 0, 693, 1099, 1386, 1609, 1792, 1946, 2079, 2197, 2303, 2398, 2485,
       2565, 2639, 2708, 2773, 2833, 2890, 2944, 2996, 3045 >>

\* is_integer(num ** (1 / i)) for an integer num > 1, in double arithmetic.
\* A num that is no perfect i-th power has an irrational root, far from
\* every integer at this size.  For num = r^i the power is the double
\* nearest to r^(i * (1 / i)) = r * exp(ReciprocalError(i) * ln(r) / 2^S):
\* r itself when 1 / i is exact (i a power of two), and otherwise r only
\* when that value is nearer to r than to the next double, which is
\* 2^(E - 52) away from r with E = FloorLog2(r) (half as far below a power
\* of two).
RootIsInteger(num, i) ==
    LET r == ExactRoot(num, i)
    IN  IF r = 0
        THEN FALSE
        ELSE IF IsPowerOfTwo(i)
        THEN TRUE
        ELSE LET d == ReciprocalError(i)
                 gap == 1000 * 2 ^ (CeilLog2(i) - 1 + FloorLog2(r))
                 half == IF d < 0 /\ IsPowerOfTwo(r) THEN gap \div 2 ELSE gap
             IN  r * (IF d < 0 THEN 0 - d ELSE d) * LnMilli[r] < half

\* is_prime_power, for an integer argument: the first i of
\* range(1, int(math.log2(num)) + 1) whose root is integral and prime
is_prime_power(num) ==
    IF num <= 1
    THEN FALSE
    ELSE \E i \in 1 .. FloorLog2(num) :
            RootIsInteger(num, i) /\ is_prime(ExactRoot(num, i))

\* is_valid_permutation, for a one-dimensional integer argument
is_valid_permutation(permutation) ==
    /\ Len(permutation) > 0
    /\ Range(permutation) = 1 .. Len(permutation)

(***************************************************************************)
(* dobble/planes.py: _get_permutation_matrix                               *)
(***************************************************************************)
\* mutant: permutation_matrix[permutation - 1, np.arange(size)] = 1
RECURSIVE PlaceOnesTransposed(_, _, _)
PlaceOnesTransposed(M, permutation, k) ==
    IF k >= Len(permutation)
    THEN M
    ELSE PlaceOnesTransposed([M EXCEPT ![At(permutation, k) - 1][k] = 1],
                             permutation, k + 1)

\* permutation_matrix[np.arange(size), permutation - 1] = 1, row k onwards
RECURSIVE PlaceOnes(_, _, _)
PlaceOnes(M, permutation, k) ==
    IF k >= Len(permutation)
    THEN M
    ELSE PlaceOnes([M EXCEPT ![k][At(permutation, k) - 1] = 1], permutation, k + 1)

\* mutant: the check without "or len(permutation) == 0"
InvalidPermutationNoEmptyCheck(permutation) ==
    Range(permutation) # 1 .. Len(permutation)

\* the check that raises ValueError("Invalid permutation."), for a
\* one-dimensional integer array
InvalidPermutation(permutation) ==
    \/ Range(permutation) # 1 .. Len(permutation)
    \/ Len(permutation) = 0

\* the value a call returns or the exception it raises
Returned(value) == [exc |-> "none", value |-> value]

Raised(exc) == [exc |-> exc, value |-> <<>>]

\* mutant: the matrix is allocated first and handed out with the failure
get_permutation_matrix_CheckLast(permutation) ==
    LET size == Len(permutation)
    IN  IF InvalidPermutation(permutation)
        THEN [exc |-> "ValueError", value |-> Zeros(size, size)]
        ELSE Returned(PlaceOnes(Zeros(size, size), permutation, 0))

get_permutation_matrix(permutation) ==
    IF InvalidPermutation(permutation)
    THEN Raised("ValueError")
    ELSE LET size == Len(permutation)
         IN  Returned(PlaceOnes(Zeros(size, size), permutation, 0))

(***************************************************************************)
(* dobble/planes.py: compute_incidence_matrix, one definition per step     *)
(***************************************************************************)
\* not (is_prime or order in list(constants.FPP_KERNELS))
InvalidOrder(order, kernels) ==
    ~(is_prime(order) \/ order \in DOMAIN kernels)

\* mutant: one row too many
AllocateExtraRow(order) == Zeros(order * order + order + 2, order * order + order + 1)

\* np.zeros((order ** 2 + order + 1, order ** 2 + order + 1), dtype=np.uint8)
Allocate(order) == Zeros(order * order + order + 1, order * order + order + 1)

\* mutant: incidence_matrix[0, : order] = 1
Row0Short(M, order) == SetRowSlice(M, 0, 0, order)

\* a) incidence_matrix[0, : order + 1] = 1
Row0(M, order) == SetRowSlice(M, 0, 0, order + 1)

\* mutant: incidence_matrix[: order, 0] = 1
Col0Short(M, order) == SetColSlice(M, 0, order, 0)

\* b) incidence_matrix[: order + 1, 0] = 1
Col0(M, order) == SetColSlice(M, 0, order + 1, 0)

\* mutant: stop = start + order - 1
BoundaryBlockShort(M, order, block, start) ==
    SetColSlice(SetRowSlice(M, block, start, start + order - 1),
                start, start + order - 1, block)

\* c) and d): one pass of the loop over block, with stop = start + order
BoundaryBlock(M, order, block, start) ==
    SetColSlice(SetRowSlice(M, block, start, start + order),
                start, start + order, block)

\* mutant: leading_entry = (i * j) % order
PrimePermutationNoOffset(order, i, j) ==
    LET remainder == (i * j) % order
        leading_entry == IF remainder = 0 THEN order ELSE remainder
    IN  [k \in 1 .. order |->
            LET entry == ((k - 1) + leading_entry) % order
            IN  IF entry = 0 THEN order ELSE entry]

\* the permutation of block (i, j) for a prime order
PrimePermutation(order, i, j) ==
    LET remainder == (1 + i * j) % order
        leading_entry == IF remainder = 0 THEN order ELSE remainder
    IN  [k \in 1 .. order |->
            LET entry == ((k - 1) + leading_entry) % order
            IN  IF entry = 0 THEN order ELSE entry]

\* mutant: constants.FPP_KERNELS[order][i, j, :], one block too far
KernelLookupNoOffset(kernels, order, i, j) ==
    IF /\ order \in DOMAIN kernels
       /\ (i + 1) \in DOMAIN kernels[order]
       /\ (j + 1) \in DOMAIN kernels[order][i + 1]
    THEN Returned(kernels[order][i + 1][j + 1])
    ELSE Raised(IF order \in DOMAIN kernels THEN "IndexError" ELSE "KeyError")

\* constants.FPP_KERNELS[order][i - 1, j - 1, :]
KernelLookup(kernels, order, i, j) ==
    IF /\ order \in DOMAIN kernels
       /\ i \in DOMAIN kernels[order]
       /\ j \in DOMAIN kernels[order][i]
    THEN Returned(kernels[order][i][j])
    ELSE Raised(IF order \in DOMAIN kernels THEN "IndexError" ELSE "KeyError")

\* mutant: "permutation -= 1" on the view of the table, in place
KernelsAfterInPlace(kernels, order, prime, i, j) ==
    IF prime \/ i = 0 \/ j = 0
    THEN kernels
    ELSE [kernels EXCEPT ![order][i][j] = [k \in 1 .. Len(@) |-> @[k] - 1]]

\* the table after block (i, j) was determined: the statements only read it
KernelsAfter(kernels, order, prime, i, j) == kernels

\* the permutation matrix C_ij
KernelBlock(kernels, order, prime, i, j) ==
    IF i = 0 \/ j = 0
    THEN Returned(Eye(order))
    ELSE IF prime
         THEN get_permutation_matrix(PrimePermutation(order, i, j))
         ELSE LET looked == KernelLookup(kernels, order, i, j)
              IN  IF looked.exc # "none"
                  THEN looked
                  ELSE get_permutation_matrix(looked.value)

\* mutant: the rows of the block are cleared from start_col to the right
\* edge before the block is written
PlaceBlockClearing(M, order, i, j, B) ==
    LET start_row == order + 1 + i * order
        start_col == order + 1 + j * order
        cleared == [r \in DOMAIN M |->
                      IF start_row <= r /\ r < start_row + order
                      THEN [c \in DOMAIN M[r] |-> IF c >= start_col THEN 0 ELSE M[r][c]]
                      ELSE M[r]]
    IN  Returned(SetBlock(cleared, start_row, start_col, B))

\* mutant: start_col = order + j * order
PlaceBlockShifted(M, order, i, j, B) ==
    LET start_row == order + 1 + i * order
        start_col == order + j * order
    IN  Returned(SetBlock(M, start_row, start_col, B))

\* incidence_matrix[start_row:end_row, start_col:end_col] = permutation_matrix
\* the slices are clipped to the matrix; a clipped slice no longer has the
\* shape of the block and the assignment raises ValueError
PlaceBlock(M, order, i, j, B) ==
    LET start_row == order + 1 + i * order
        start_col == order + 1 + j * order
        end_row == start_row + order
        end_col == start_col + order
    IN  IF end_row <= NumRows(M) /\ end_col <= NumCols(M)
        THEN Returned(SetBlock(M, start_row, start_col, B))
        ELSE Raised("ValueError")

\* the loop of lines 99-107 from block onwards
RECURSIVE BoundaryLoop(_, _, _, _)
BoundaryLoop(M, order, block, start) ==
    IF block > order
    THEN M
    ELSE BoundaryLoop(BoundaryBlock(M, order, block, start), order, block + 1,
                      start + order)

\* the loop of lines 110-130 from (i, j) onwards
RECURSIVE KernelLoop(_, _, _, _, _, _)
KernelLoop(M, kernels, order, prime, i, j) ==
    IF i >= order
    THEN Returned(M)
    ELSE LET C == KernelBlock(kernels, order, prime, i, j)
             placed == PlaceBlock(M, order, i, j, C.value)
         IN  IF C.exc # "none"
             THEN C
             ELSE IF placed.exc # "none"
                  THEN placed
                  ELSE KernelLoop(placed.value, kernels, order, prime,
                                  IF j + 1 < order THEN i ELSE i + 1,
                                  IF j + 1 < order THEN j + 1 ELSE 0)

\* compute_incidence_matrix run from its first line to its last with no
\* other call in between
compute_incidence_matrix(order, kernels) ==
    IF InvalidOrder(order, kernels)
    THEN Raised("ValueError")
    ELSE KernelLoop(
            BoundaryLoop(Col0(Row0(Allocate(order), order), order), order, 1, order + 1),
            kernels, order, is_prime(order), 0, 0)

(***************************************************************************)
(* The state machine.  call[t] is the frame of the operation thread t      *)
(* runs: its position pc, its argument, its locals and what it returned or *)
(* raised.  The caller takes the outcome of an operation that is over       *)
(* (Release) and the thread is free for its next operation.                *)
(***************************************************************************)
NoFrame ==
    [op |-> "none", pc |-> "idle", order |-> 0, prime |-> FALSE,
     incidence_matrix |-> <<>>, start |-> 0, block |-> 0, i |-> 0, j |-> 0,
     placed |-> {}, writes |-> {}, permutation |-> <<>>, num |-> 0,
     exc |-> "none",
     result |-> <<>>, answer |-> FALSE]

\* mutant: one module-level array that every call uses
SharedFrame(t) == 1

\* incidence_matrix is a local of the call: thread t's call reads and writes
\* the array of its own frame
Frame(t) == t

\* an array of the shape of M with v in every cell
Blank(M, v) == [r \in DOMAIN M |-> [c \in DOMAIN M[r] |-> v]]

\* the cells an assignment statement of the construction assigns, given the
\* array it makes of the array of zeros (lo) and of the array of ones (hi):
\* a cell the statement assigns has the assigned value in both, a cell it
\* leaves alone keeps 0 in one and 1 in the other
Assigned(lo, hi) ==
    UNION {{<<r, c>> : c \in {k \in DOMAIN lo[r] : lo[r][k] = hi[r][k]}} :
            r \in DOMAIN lo}

\* the statement of the construction at index at, and the cells it assigned;
\* writes is the record of the statements the call has run in program order
Write(step, at, cells) == [step |-> step, at |-> at, cells |-> cells]

Idle(t) == call[t].pc = "idle"

Over(t) == call[t].pc \in {"done", "raised"}

Running(t, pc) == call[t].op = "compute_incidence_matrix" /\ call[t].pc = pc

\* where the call goes on after the boundary loop has reached block
AfterBoundary(order, block) ==
    IF block <= order THEN "boundary" ELSE IF order > 0 THEN "kernel" ELSE "return"

\* the successor of (i, j) in np.ndindex(order, order)
NextIndex(order, i, j) ==
    IF j + 1 < order THEN <<i, j + 1>> ELSE <<i + 1, 0>>

\* lines 78-84: the call, its validation and the raise
\* the argument is any order of the set orders
Call(t, orders) ==
    /\ Idle(t)
    /\ \E order \in orders :
          call' = [call EXCEPT
            ![t] = [NoFrame EXCEPT
                !.op = "compute_incidence_matrix",
                !.order = order,
                !.prime = is_prime(order),
                !.pc = IF InvalidOrder(order, FPP_KERNELS) THEN "raised" ELSE "allocate",
                !.exc = IF InvalidOrder(order, FPP_KERNELS) THEN "ValueError" ELSE "none"]]
    /\ UNCHANGED FPP_KERNELS

\* lines 87-90
DoAllocate(t) ==
    /\ Running(t, "allocate")
    /\ call' = [call EXCEPT
            ![t].pc = "row0",
            ![Frame(t)].incidence_matrix = Allocate(call[t].order)]
    /\ UNCHANGED FPP_KERNELS

\* line 93
DoRow0(t) ==
    /\ Running(t, "row0")
    /\ call' = [call EXCEPT
            ![t].pc = "col0",
            ![t].writes = @ \cup {Write("row0", <<0, 0>>,
                Assigned(Row0(Blank(call[Frame(t)].incidence_matrix, 0), call[t].order),
                         Row0(Blank(call[Frame(t)].incidence_matrix, 1), call[t].order)))},
            ![Frame(t)].incidence_matrix =
                Row0(call[Frame(t)].incidence_matrix, call[t].order)]
    /\ UNCHANGED FPP_KERNELS

\* lines 96-98
DoCol0(t) ==
    /\ Running(t, "col0")
    /\ call' = [call EXCEPT
            ![t].start = call[t].order + 1,
            ![t].block = 1,
            ![t].pc = AfterBoundary(call[t].order, 1),
            ![t].writes = @ \cup {Write("col0", <<0, 0>>,
                Assigned(Col0(Blank(call[Frame(t)].incidence_matrix, 0), call[t].order),
                         Col0(Blank(call[Frame(t)].incidence_matrix, 1), call[t].order)))},
            ![Frame(t)].incidence_matrix =
                Col0(call[Frame(t)].incidence_matrix, call[t].order)]
    /\ UNCHANGED FPP_KERNELS

\* lines 99-107, one pass of the loop
DoBoundary(t) ==
    /\ Running(t, "boundary")
    /\ LET f == call[t]
           M == call[Frame(t)].incidence_matrix
       IN  IF f.block \in DOMAIN M
           THEN call' = [call EXCEPT
                    ![t].start = f.start + f.order,
                    ![t].block = f.block + 1,
                    ![t].pc = AfterBoundary(f.order, f.block + 1),
                    ![t].writes = @ \cup {Write("boundary", <<f.block, f.start>>,
                        Assigned(BoundaryBlock(Blank(M, 0), f.order, f.block, f.start),
                                 BoundaryBlock(Blank(M, 1), f.order, f.block, f.start)))},
                    ![Frame(t)].incidence_matrix =
                        BoundaryBlock(M, f.order, f.block, f.start)]
           ELSE call' = [call EXCEPT ![t].pc = "raised", ![t].exc = "IndexError"]
    /\ UNCHANGED FPP_KERNELS

\* lines 110-130, one pass of the loop
DoKernel(t) ==
    /\ Running(t, "kernel")
    /\ LET f == call[t]
           M == call[Frame(t)].incidence_matrix
           C == KernelBlock(FPP_KERNELS, f.order, f.prime, f.i, f.j)
           placed == PlaceBlock(M, f.order, f.i, f.j, C.value)
           next == NextIndex(f.order, f.i, f.j)
       IN  /\ FPP_KERNELS' = KernelsAfter(FPP_KERNELS, f.order, f.prime, f.i, f.j)
           /\ IF C.exc # "none"
              THEN call' = [call EXCEPT ![t].pc = "raised", ![t].exc = C.exc]
              ELSE IF placed.exc # "none"
                   THEN call' = [call EXCEPT ![t].pc = "raised", ![t].exc = placed.exc]
                   ELSE call' = [call EXCEPT
                            ![t].i = next[1],
                            ![t].j = next[2],
                            ![t].pc = IF next[1] < f.order THEN "kernel" ELSE "return",
                            ![t].writes = @ \cup {Write("kernel", <<f.i, f.j>>,
                                Assigned(
                                    PlaceBlock(Blank(M, 0), f.order, f.i, f.j, C.value).value,
                                    PlaceBlock(Blank(M, 1), f.order, f.i, f.j, C.value).value))},
                            ![Frame(t)].incidence_matrix = placed.value]

\* lines 111-130 for any index (i, j) of np.ndindex(order, order) that has
\* not had its pass yet: the body of the loop, run in an order of the
\* indices that is not the loop's
KernelAny(t) ==
    /\ Running(t, "kernel")
    /\ \E i, j \in 0 .. call[t].order - 1 :
          /\ <<i, j>> \notin call[t].placed
          /\ LET f == call[t]
                 M == call[Frame(t)].incidence_matrix
                 C == KernelBlock(FPP_KERNELS, f.order, f.prime, i, j)
                 placed == PlaceBlock(M, f.order, i, j, C.value)
                 passes == f.placed \cup {<<i, j>>}
             IN  /\ FPP_KERNELS' = KernelsAfter(FPP_KERNELS, f.order, f.prime, i, j)
                 /\ IF C.exc # "none"
                    THEN call' = [call EXCEPT ![t].pc = "raised", ![t].exc = C.exc]
                    ELSE IF placed.exc # "none"
                         THEN call' = [call EXCEPT ![t].pc = "raised",
                                                   ![t].exc = placed.exc]
                         ELSE call' = [call EXCEPT
                                  ![t].placed = passes,
                                  ![t].pc = IF Cardinality(passes) = f.order * f.order
                                            THEN "return" ELSE "kernel",
                                  ![Frame(t)].incidence_matrix = placed.value]

\* line 132
DoReturn(t) ==
    /\ Running(t, "return")
    /\ call' = [call EXCEPT
            ![t].pc = "done",
            ![t].result = call[Frame(t)].incidence_matrix]
    /\ UNCHANGED FPP_KERNELS

\* the arguments of the calls of _get_permutation_matrix: every sequence of
\* at most MaxPermLen values of 0 .. MaxPermLen + 1, and the tests' literals
BoundedPermutations ==
    UNION {[1 .. n -> 0 .. MaxPermLen + 1] : n \in 0 .. MaxPermLen}

TestPermutations ==
    { <<1, 1, 3, 4, 5>>, <<1, 2, 2, 3, 4>>, <<4, 1, 2>>, <<0, 1, 2, 3, 4>>,
      <<2, 1, 4>>, <<2, 4, 1, 3>>, <<5, 2, 3, 4, 1>> }

PermutationInputs == BoundedPermutations \cup TestPermutations

\* a call of _get_permutation_matrix on its own
CallGetPermutationMatrix(t) ==
    /\ Idle(t)
    /\ \E permutation \in PermutationInputs :
          LET out == get_permutation_matrix(permutation)
          IN  call' = [call EXCEPT
                ![t] = [NoFrame EXCEPT
                    !.op = "_get_permutation_matrix",
                    !.permutation = permutation,
                    !.pc = IF out.exc = "none" THEN "done" ELSE "raised",
                    !.exc = out.exc,
                    !.result = out.value]]
    /\ UNCHANGED FPP_KERNELS

\* a call of utils.is_valid_permutation
CallIsValidPermutation(t) ==
    /\ Idle(t)
    /\ \E permutation \in PermutationInputs :
          call' = [call EXCEPT
            ![t] = [NoFrame EXCEPT
                !.op = "is_valid_permutation",
                !.permutation = permutation,
                !.pc = "done",
                !.answer = is_valid_permutation(permutation)]]
    /\ UNCHANGED FPP_KERNELS

\* the arguments of the calls of is_prime and is_prime_power: every integer
\* of -MaxNeg .. MaxNum, and the numbers of the tests
SampleNumbers == {241, 243, 7919, 7920, 10000}

NumberInputs == (-MaxNeg .. MaxNum) \cup SampleNumbers

\* a call of utils.is_prime
CallIsPrime(t) ==
    /\ Idle(t)
    /\ \E num \in NumberInputs :
          call' = [call EXCEPT
            ![t] = [NoFrame EXCEPT
                !.op = "is_prime",
                !.num = num,
                !.pc = "done",
                !.answer = is_prime(num)]]
    /\ UNCHANGED FPP_KERNELS

\* a call of utils.is_prime_power
CallIsPrimePower(t) ==
    /\ Idle(t)
    /\ \E num \in NumberInputs :
          call' = [call EXCEPT
            ![t] = [NoFrame EXCEPT
                !.op = "is_prime_power",
                !.num = num,
                !.pc = "done",
                !.answer = is_prime_power(num)]]
    /\ UNCHANGED FPP_KERNELS

\* the caller has the outcome; the frame is gone
Release(t) ==
    /\ Over(t)
    /\ call' = [call EXCEPT ![t] = NoFrame]
    /\ UNCHANGED FPP_KERNELS

(***************************************************************************)
(* dobble/visual.py and dobble/emoji.py: the rotation of a visual element. *)
(* A rotation and a number of degrees are Python floats.  The model holds  *)
(* the floats deg + tiny * e, for a whole number deg and a whole multiple  *)
(* of a float e so small (1e-20) that deg + tiny * e rounds to deg for     *)
(* every deg # 0: tiny # 0 only goes with deg = 0.                         *)
(***************************************************************************)
Whole(deg) == [deg |-> deg, tiny |-> 0]

Tiny(tiny) == [deg |-> 0, tiny |-> tiny]

\* a + b in double arithmetic
FloatAdd(a, b) ==
    IF a.deg + b.deg # 0
    THEN Whole(a.deg + b.deg)
    ELSE [deg |-> 0, tiny |-> a.tiny + b.tiny]

\* x % 360 for a float x: fmod(x, 360), and 360 is added to a remainder
\* below zero; a remainder tiny * e below zero plus 360 rounds to 360.0
Mod360(x) ==
    IF x.tiny < 0
    THEN Whole(360)
    ELSE IF x.tiny > 0
         THEN x
         ELSE Whole(x.deg % 360)

\* the floats the calls are made with
DegreeInputs ==
    {Whole(d) : d \in -MaxDegrees .. MaxDegrees}
        \cup {Tiny(e) : e \in (-MaxTiny .. MaxTiny) \ {0}}

\* what rng.uniform(0, 360) can give: the whole numbers of [0, 360)
UniformRotations == {Whole(d) : d \in 0 .. 359}

NoVisual == [class |-> "none", rotation |-> Whole(0)]

\* the sums of the model stay inside the floats it holds
Held(x) == x.tiny \in -MaxTiny .. MaxTiny

\* Visual.__init__ (visual.py line 45) and Emoji.__init__ (emoji.py line 58):
\* self.rotation = rotation % 360
NewVisual(class) ==
    /\ visual.class = "none"
    /\ \E rotation \in DegreeInputs :
          visual' = [class |-> class, rotation |-> Mod360(rotation)]

\* rotate(degrees): self.rotation = (self.rotation + degrees) % 360
Rotate ==
    /\ visual.class # "none"
    /\ \E degrees \in DegreeInputs :
          /\ Held(FloatAdd(visual.rotation, degrees))
          /\ visual' = [visual EXCEPT
                !.rotation = Mod360(FloatAdd(visual.rotation, degrees))]

\* Visual.rotate(degrees=None, seed): self.rotation = rng.uniform(0, 360)
RotateRandomly ==
    /\ visual.class = "Visual"
    /\ \E rotation \in UniformRotations :
          visual' = [visual EXCEPT !.rotation = rotation]

\* reset_rotation(): self.rotation = 0
ResetRotation ==
    /\ visual.class # "none"
    /\ visual' = [visual EXCEPT !.rotation = Whole(0)]

\* the object is dropped
DropVisual ==
    /\ visual.class # "none"
    /\ visual' = NoVisual

(***************************************************************************)
(* dobble/dobble.py: create_dobble_deck.  The file system is the set of    *)
(* the directories and the set of the files that exist; a path is the      *)
(* sequence of its components below the current working directory.         *)
(* dobble.py calls compute_incidence_matrix under the name                 *)
(* utils.compute_incidence_matrix; the function is the one of planes.py.   *)
(***************************************************************************)
\* os.getcwd()
Cwd == <<>>

\* constants.DEFAULT_DECK_PARAMS["name"]
DEFAULT_DECK_NAME == "my-dobble-deck"

\* the file system before a deck is made: the working directory, a
\* directory "out" and a file "notes.txt" in it
NoDecks == [dirs |-> {Cwd, <<"out">>}, files |-> {<<"notes.txt">>}]

\* os.path.isdir(path)
IsDir(fs, path) == path \in fs.dirs

\* os.path.exists(path)
Exists(fs, path) == path \in fs.dirs \cup fs.files

\* os.makedirs(path): the directory and the missing ones above it
MakeDirs(fs, path) ==
    [fs EXCEPT !.dirs = @ \cup {SubSeq(path, 1, k) : k \in 0 .. Len(path)}]

\* a file is written at path
WriteFile(fs, path) == [fs EXCEPT !.files = @ \cup {path}]

\* f"{card + 1:03d}"
Pad3(n) ==
    IF n < 10 THEN "00" \o ToString(n)
    ELSE IF n < 100 THEN "0" \o ToString(n) ELSE ToString(n)

\* f"{deck_params['name']}_{card + 1:03d}.png" for card = number
PngName(name, number) == name \o "_" \o Pad3(number + 1) \o ".png"

\* create_dobble_deck(emojis, deck_params), lines 394-507, for a list of
\* num_emojis emojis that create_dobble_card can draw; save_dir is "None"
\* or the name of a path below the working directory
create_dobble_deck(fs, kernels, num_emojis, name, emojis_per_card, save_dir) ==
    LET deck_dir == IF save_dir = "None" THEN Cwd \o <<name>> ELSE <<save_dir, name>>
        num_cards == (emojis_per_card - 1) * (emojis_per_card - 1) + emojis_per_card
        info == deck_dir \o <<"info">>
        csv_files == [deck |-> info \o <<"deck.csv">>, emojis |-> info \o <<"emojis.csv">>]
        directories == MakeDirs(MakeDirs(fs, deck_dir), info)
        tables == WriteFile(WriteFile(directories, csv_files.emojis), csv_files.deck)
        incidence_matrix == compute_incidence_matrix(emojis_per_card - 1, kernels)
        cards == [tables EXCEPT !.files =
                    @ \cup {deck_dir \o <<PngName(name, number)>> :
                                number \in 0 .. num_cards - 1}]
    IN  IF save_dir # "None" /\ ~IsDir(fs, <<save_dir>>)
        THEN [exc |-> "ValueError", fs |-> fs, value |-> <<>>]
        ELSE IF Exists(fs, deck_dir)
        THEN [exc |-> "ValueError", fs |-> fs, value |-> <<>>]
        ELSE IF num_emojis < num_cards
        THEN [exc |-> "ValueError", fs |-> fs, value |-> <<>>]
        ELSE IF incidence_matrix.exc # "none"
        THEN [exc |-> incidence_matrix.exc, fs |-> tables, value |-> <<>>]
        ELSE [exc |-> "none", fs |-> cards, value |-> csv_files]

(***************************************************************************)
(* dobble/card.py.  A list is a sequence (Python's index k is k + 1); the  *)
(* dictionary emojis is the sequence of its items in insertion order, the  *)
(* order Python iterates it in.                                            *)
(***************************************************************************)
FIVE_VALID_EMOJI_NAMES == <<"unicorn", "dolphin", "cheese wedge", "bomb", "ice">>

INVALID_EMOJI_NAME == "invalid emoji name"

\* string.ascii_uppercase[:5]
Letters == <<"A", "B", "C", "D", "E">>

LetterName(k) == "regional indicator " \o Letters[k]

\* name in _META_DATA, for the names of the model
InMetaData(name) ==
    \/ name \in Range(FIVE_VALID_EMOJI_NAMES)
    \/ \E k \in DOMAIN Letters : name = LetterName(k)

\* utils.is_valid_emoji_name for a list argument
is_valid_emoji_name(emoji_names) ==
    /\ Len(emoji_names) # 0
    /\ \A k \in DOMAIN emoji_names : InMetaData(emoji_names[k])

\* list(dict.fromkeys(emoji_names)): the first occurrence of every name
RECURSIVE Unique(_)
Unique(names) ==
    IF names = <<>>
    THEN <<>>
    ELSE LET init == Unique(SubSeq(names, 1, Len(names) - 1))
             last == names[Len(names)]
         IN  IF last \in Range(init) THEN init ELSE Append(init, last)

\* the keys of constants.PACKINGS_DICT
Packings == {"cci", "ccib", "ccic", "ccir", "ccis"}

\* constants.PACKINGS_DICT[packing][1]: the numbers of circles a packing
\* has data for
PackingSizes(packing) == IF packing = "cci" THEN 1 .. 50 ELSE 5 .. 50

is_valid_packing(packing) == packing \in Packings

is_layout_available(packing, num_circles) ==
    IF ~is_valid_packing(packing) \/ ~(num_circles > 0)
    THEN FALSE
    ELSE num_circles \in PackingSizes(packing)

NoCard ==
    [exists |-> FALSE, emoji_names |-> <<>>, emojis |-> <<>>, num_emojis |-> 0,
     packing |-> "", rotation |-> Whole(0)]

\* a call: the method, its argument, what it raised, the warnings it gave,
\* what it returned and the card as it was before the call
NoReply == [op |-> "none", arg |-> <<>>, exc |-> "none", warnings |-> {},
            value |-> <<>>, before |-> NoCard, disk |-> NoDecks]

Ready == card.exists /\ reply.op = "none"

\* {name: Emoji(name) for name in emoji_names}
NewEmojis(emoji_names) ==
    [k \in 1 .. Len(emoji_names) |-> [name |-> emoji_names[k], rotation |-> Whole(0)]]

\* Card.__init__(emoji_names, packing), lines 84-116
CardInit(emoji_names, packing) ==
    LET unique_emoji_names == Unique(emoji_names)
        duplicates == Len(emoji_names) > Len(unique_emoji_names)
        names == IF duplicates THEN unique_emoji_names ELSE emoji_names
        available == is_layout_available(packing, Len(names))
        warned == (IF duplicates THEN {"duplicates removed"} ELSE {})
                    \cup (IF available THEN {} ELSE {"using cci instead"})
    IN  IF ~is_valid_emoji_name(emoji_names)
        THEN [exc |-> "ValueError", warnings |-> {}, card |-> NoCard]
        ELSE IF ~available /\ ~is_valid_packing(packing)
        THEN [exc |-> "ValueError",
              warnings |-> IF duplicates THEN {"duplicates removed"} ELSE {},
              card |-> NoCard]
        ELSE IF ~available /\ Len(names) > 50
        THEN [exc |-> "ValueError",
              warnings |-> IF duplicates THEN {"duplicates removed"} ELSE {},
              card |-> NoCard]
        ELSE [exc |-> "none",
              warnings |-> warned,
              card |-> [exists |-> TRUE,
                        emoji_names |-> names,
                        emojis |-> NewEmojis(names),
                        num_emojis |-> Len(names),
                        packing |-> packing,
                        rotation |-> Mod360(Whole(0))]]

\* a Card is constructed from a list of lists and a packing of packings
NewCard(lists, packings) ==
    /\ ~card.exists
    /\ reply.op = "none"
    /\ \E emoji_names \in lists, packing \in packings :
          LET made == CardInit(emoji_names, packing)
          IN  /\ card' = made.card
              /\ reply' = [NoReply EXCEPT
                    !.op = "Card",
                    !.exc = made.exc,
                    !.warnings = made.warnings,
                    !.arg = <<emoji_names, packing>>]

\* mutant: the emoji at position k goes to position permutation[k]
ShuffledInverse(emoji_names, permutation) ==
    [k \in 1 .. Len(permutation) |->
        emoji_names[CHOOSE i \in 1 .. Len(permutation) : permutation[i] = k]]

\* [self.emoji_names[i - 1] for i in permutation]
Shuffled(emoji_names, permutation) ==
    [k \in 1 .. Len(permutation) |-> emoji_names[permutation[k]]]

\* the permutations of a list: what rng.shuffle can leave
Orderings(emoji_names) ==
    {Shuffled(emoji_names, p) :
        p \in {q \in [1 .. Len(emoji_names) -> 1 .. Len(emoji_names)] :
                    Range(q) = 1 .. Len(emoji_names)}}

\* the lists shuffle_emojis is called with: every list of at most MaxEmojis
\* values of 0 .. MaxEmojis + 1
PermutationArguments ==
    UNION {[1 .. n -> 0 .. MaxEmojis + 1] : n \in 0 .. MaxEmojis}

\* Card.shuffle_emojis(permutation), lines 439-448; permutation=None is
\* the empty list here, both take the else branch
ShuffleEmojis ==
    /\ Ready
    /\ \E permutation \in PermutationArguments :
          IF permutation # <<>>
          THEN IF ~(Len(permutation) = card.num_emojis
                        /\ is_valid_permutation(permutation))
               THEN /\ card' = card
                    /\ reply' = [NoReply EXCEPT
                          !.op = "shuffle_emojis", !.arg = permutation,
                          !.exc = "ValueError", !.before = card]
               ELSE LET names == Shuffled(card.emoji_names, permutation)
                    IN  /\ card' = [card EXCEPT !.emoji_names = names]
                        /\ reply' = [NoReply EXCEPT
                              !.op = "shuffle_emojis", !.arg = permutation,
                              !.value = names, !.before = card]
          ELSE \E names \in Orderings(card.emoji_names) :
                  /\ card' = [card EXCEPT !.emoji_names = names]
                  /\ reply' = [NoReply EXCEPT
                        !.op = "shuffle_emojis", !.arg = permutation,
                        !.value = names, !.before = card]

\* the degrees the emojis of a card are rotated by
EmojiDegrees == {Whole(180)}

\* the values of rng.uniform(0, 360) the emojis of a card are rotated by
UniformSample == {Whole(0), Whole(180)}

\* emoji_name in self.emojis
OnCard(emojis, emoji_name) == \E k \in DOMAIN emojis : emojis[k].name = emoji_name

\* self.emojis[emoji_name].rotate(degrees)
RotateSingle(emojis, emoji_name, degrees) ==
    [k \in DOMAIN emojis |->
        IF emojis[k].name = emoji_name
        THEN [emojis[k] EXCEPT !.rotation = Mod360(FloatAdd(@, degrees))]
        ELSE emojis[k]]

\* self.emojis[emoji_name].reset_rotation()
ResetSingle(emojis, emoji_name) ==
    [k \in DOMAIN emojis |->
        IF emojis[k].name = emoji_name
        THEN [emojis[k] EXCEPT !.rotation = Whole(0)]
        ELSE emojis[k]]

\* an entry of emoji_data: a tuple of length len that starts with a name
\* and a number of degrees
Entry(name, degrees, len) == [name |-> name, degrees |-> degrees, len |-> len]

\* the names a method is called with: the names of the card and a name
\* that is not on it
NameArguments == Range(card.emoji_names) \cup {INVALID_EMOJI_NAME}

\* the tuples of length 2, and (name, degrees, "incorrect_tuple")
EntryArguments ==
    {Entry(name, degrees, 2) : name \in NameArguments, degrees \in EmojiDegrees}
        \cup {Entry(card.emoji_names[1], Whole(180), 3)}

\* emoji_data: None, a tuple, a list of at most MaxEntries tuples, a string
EmojiDataArguments ==
    {[kind |-> "None", entries |-> <<>>], [kind |-> "str", entries |-> <<>>]}
        \cup {[kind |-> "tuple", entries |-> <<e>>] : e \in EntryArguments}
        \cup {[kind |-> "list", entries |-> l] :
                l \in UNION {[1 .. n -> EntryArguments] : n \in 0 .. MaxEntries}}

\* the loop of lines 346-352 from the first of entries onwards: the entries
\* before the one that raises have been rotated when it raises
RECURSIVE RotateEach(_, _)
RotateEach(emojis, entries) ==
    IF entries = <<>>
    THEN [exc |-> "none", emojis |-> emojis]
    ELSE LET emoji_tuple == Head(entries)
         IN  IF emoji_tuple.len = 2 /\ OnCard(emojis, emoji_tuple.name)
             THEN RotateEach(RotateSingle(emojis, emoji_tuple.name, emoji_tuple.degrees),
                             Tail(entries))
             ELSE [exc |-> "ValueError", emojis |-> emojis]

\* rotate_all(): every emoji is rotated by a value of rng.uniform(0, 360)
RotateAll(emojis, uniform) ==
    [k \in DOMAIN emojis |->
        [emojis[k] EXCEPT !.rotation = Mod360(FloatAdd(@, uniform[k]))]]

\* Card.rotate_emojis(emoji_data), lines 341-354
RotateEmojis ==
    /\ Ready
    /\ \E emoji_data \in EmojiDataArguments :
        \E uniform \in [DOMAIN card.emojis -> UniformSample] :
          LET done ==
                CASE emoji_data.kind = "None" ->
                        [exc |-> "none", emojis |-> RotateAll(card.emojis, uniform)]
                  [] emoji_data.kind = "tuple" /\ emoji_data.entries[1].len = 2 ->
                        RotateEach(card.emojis, emoji_data.entries)
                  [] emoji_data.kind = "list" ->
                        RotateEach(card.emojis, emoji_data.entries)
                  [] OTHER -> [exc |-> "ValueError", emojis |-> card.emojis]
          IN  /\ emoji_data.kind # "None" => \A k \in DOMAIN uniform : uniform[k] = Whole(0)
              /\ card' = [card EXCEPT !.emojis = done.emojis]
              /\ reply' = [NoReply EXCEPT
                    !.op = "rotate_emojis", !.arg = emoji_data,
                    !.exc = done.exc, !.before = card]

\* emoji_names: None, a string, a list of at most MaxEntries strings, a tuple
EmojiNamesArguments ==
    {[kind |-> "None", names |-> <<>>], [kind |-> "tuple", names |-> <<>>]}
        \cup {[kind |-> "str", names |-> <<name>>] : name \in NameArguments}
        \cup {[kind |-> "list", names |-> l] :
                l \in UNION {[1 .. n -> NameArguments] : n \in 0 .. MaxEntries}}

\* the loops of lines 287-288 and 292-293 from the first of names onwards
RECURSIVE ResetEach(_, _)
ResetEach(emojis, names) ==
    IF names = <<>>
    THEN [exc |-> "none", emojis |-> emojis]
    ELSE IF OnCard(emojis, Head(names))
         THEN ResetEach(ResetSingle(emojis, Head(names)), Tail(names))
         ELSE [exc |-> "ValueError", emojis |-> emojis]

\* Card.reset_emoji_rotations(emoji_names), lines 286-295
ResetEmojiRotations ==
    /\ Ready
    /\ \E emoji_names \in EmojiNamesArguments :
          LET done ==
                CASE emoji_names.kind = "None" ->
                        ResetEach(card.emojis,
                                  [k \in DOMAIN card.emojis |-> card.emojis[k].name])
                  [] emoji_names.kind \in {"str", "list"} ->
                        ResetEach(card.emojis, emoji_names.names)
                  [] OTHER -> [exc |-> "ValueError", emojis |-> card.emojis]
          IN  /\ card' = [card EXCEPT !.emojis = done.emojis]
              /\ reply' = [NoReply EXCEPT
                    !.op = "reset_emoji_rotations", !.arg = emoji_names,
                    !.exc = done.exc, !.before = card]

\* self.emojis[emoji_name]
EmojiNamed(emojis, emoji_name) ==
    emojis[CHOOSE k \in DOMAIN emojis : emojis[k].name = emoji_name]

\* Card.get_img, lines 177-191: position idx of the packing holds the
\* image of self.emojis[self.emoji_names[idx]], drawn at its rotation
GetImg(emoji_names, emojis) ==
    [idx \in DOMAIN emoji_names |->
        [name |-> emoji_names[idx],
         rotation |-> EmojiNamed(emojis, emoji_names[idx]).rotation]]

\* lines 236-245: the letters that stand in for the emojis; the k-th letter
\* is rotated by the rotation of the k-th value of self.emojis
LayoutEmojis(emojis) ==
    LET emoji_rotations == [k \in DOMAIN emojis |-> emojis[k].rotation]
        letters == [k \in DOMAIN emojis |-> LetterName(k)]
    IN  RotateAll(NewEmojis(letters), emoji_rotations)

\* Card.get_layout(), lines 223-259: the value is the image of the letters;
\* the finally clause puts back the emoji_names and the emojis of card_params
GetLayout ==
    /\ Ready
    /\ IF card.num_emojis > 26
       THEN reply' = [NoReply EXCEPT
                !.op = "get_layout", !.exc = "ValueError", !.before = card]
       ELSE LET stand_ins == LayoutEmojis(card.emojis)
                names == [k \in DOMAIN stand_ins |-> stand_ins[k].name]
            IN  reply' = [NoReply EXCEPT
                    !.op = "get_layout",
                    !.value = GetImg(names, stand_ins),
                    !.before = card]
    /\ card' = card

\* the names of the decks, the values of "save_dir": no directory given, a
\* directory, a path that does not exist, a file
DeckNames == {DEFAULT_DECK_NAME, "deck"}

SaveDirs == {"None", "out", "missing", "notes.txt"}

\* a call of create_dobble_deck (dobble.py)
CreateDobbleDeck ==
    /\ reply.op = "none"
    /\ \E num_emojis \in 0 .. MaxDeckEmojis, name \in DeckNames,
          emojis_per_card \in 1 .. MaxPerCard, save_dir \in SaveDirs :
          LET made == create_dobble_deck(disk, FPP_KERNELS, num_emojis, name,
                                         emojis_per_card, save_dir)
          IN  /\ disk' = made.fs
              /\ reply' = [NoReply EXCEPT
                    !.op = "create_dobble_deck",
                    !.arg = <<num_emojis, name, emojis_per_card, save_dir>>,
                    !.exc = made.exc,
                    !.value = made.value,
                    !.disk = disk]

\* the caller has the outcome of the call
TakeReply ==
    /\ reply.op # "none"
    /\ reply' = NoReply
    /\ card' = card

\* the card is dropped
DropCard ==
    /\ Ready
    /\ card' = NoCard
    /\ reply' = reply

Init ==
    /\ FPP_KERNELS = PERMUTATIONS
    /\ call = [t \in Threads |-> NoFrame]
    /\ first = [seen |-> FALSE, again |-> FALSE, order |-> 0, exc |-> "none",
                result |-> <<>>]
    /\ visual = NoVisual
    /\ card = NoCard
    /\ reply = NoReply
    /\ disk = NoDecks

\* one thread, one operation after the other
CallSeq == Call(1, Orders) /\ UNCHANGED <<first, world>>

AllocateSeq == DoAllocate(1) /\ UNCHANGED <<first, world>>

Row0Seq == DoRow0(1) /\ UNCHANGED <<first, world>>

Col0Seq == DoCol0(1) /\ UNCHANGED <<first, world>>

BoundarySeq == DoBoundary(1) /\ UNCHANGED <<first, world>>

KernelSeq == DoKernel(1) /\ UNCHANGED <<first, world>>

ReturnSeq == DoReturn(1) /\ UNCHANGED <<first, world>>

ReleaseSeq == Release(1) /\ UNCHANGED <<first, world>>

PermutationSeq == CallGetPermutationMatrix(1) /\ UNCHANGED <<first, world>>

IsValidSeq == CallIsValidPermutation(1) /\ UNCHANGED <<first, world>>

IsPrimeSeq == CallIsPrime(1) /\ UNCHANGED <<first, world>>

IsPrimePowerSeq == CallIsPrimePower(1) /\ UNCHANGED <<first, world>>

Next ==
    \/ CallSeq
    \/ AllocateSeq
    \/ Row0Seq
    \/ Col0Seq
    \/ BoundarySeq
    \/ KernelSeq
    \/ ReturnSeq
    \/ ReleaseSeq
    \/ PermutationSeq
    \/ IsValidSeq
    \/ IsPrimeSeq
    \/ IsPrimePowerSeq

Spec == Init /\ [][Next]_vars

(***************************************************************************)
(* Calls one after the other, with an observer that keeps the outcome of   *)
(* the first compute_incidence_matrix call that finished and notes when a  *)
(* later call with the same order has finished.                            *)
(***************************************************************************)
Finished(f) ==
    f.op = "compute_incidence_matrix" /\ f.pc \in {"done", "raised"}

Observe(t) ==
    first' =
        IF ~Finished(call'[t]) \/ Finished(call[t])
        THEN first
        ELSE IF ~first.seen
             THEN [seen |-> TRUE, again |-> FALSE, order |-> call'[t].order,
                   exc |-> call'[t].exc, result |-> call'[t].result]
             ELSE IF call'[t].order = first.order
                  THEN [first EXCEPT !.again = TRUE]
                  ELSE first

CallDet == Call(1, DetOrders) /\ Observe(1) /\ UNCHANGED world

AllocateDet == DoAllocate(1) /\ Observe(1) /\ UNCHANGED world

Row0Det == DoRow0(1) /\ Observe(1) /\ UNCHANGED world

Col0Det == DoCol0(1) /\ Observe(1) /\ UNCHANGED world

BoundaryDet == DoBoundary(1) /\ Observe(1) /\ UNCHANGED world

KernelDet == DoKernel(1) /\ Observe(1) /\ UNCHANGED world

ReturnDet == DoReturn(1) /\ Observe(1) /\ UNCHANGED world

ReleaseDet == Release(1) /\ Observe(1) /\ UNCHANGED world

NextDet ==
    \/ CallDet
    \/ AllocateDet
    \/ Row0Det
    \/ Col0Det
    \/ BoundaryDet
    \/ KernelDet
    \/ ReturnDet
    \/ ReleaseDet

SpecDet == Init /\ [][NextDet]_vars

(***************************************************************************)
(* Calls on two threads with no lock: the steps of the two calls           *)
(* interleave in every order.                                              *)
(***************************************************************************)
CallConc == \E t \in Threads : Call(t, ConcOrders) /\ UNCHANGED <<first, world>>

AllocateConc == \E t \in Threads : DoAllocate(t) /\ UNCHANGED <<first, world>>

Row0Conc == \E t \in Threads : DoRow0(t) /\ UNCHANGED <<first, world>>

Col0Conc == \E t \in Threads : DoCol0(t) /\ UNCHANGED <<first, world>>

BoundaryConc == \E t \in Threads : DoBoundary(t) /\ UNCHANGED <<first, world>>

KernelConc == \E t \in Threads : DoKernel(t) /\ UNCHANGED <<first, world>>

ReturnConc == \E t \in Threads : DoReturn(t) /\ UNCHANGED <<first, world>>

ReleaseConc == \E t \in Threads : Release(t) /\ UNCHANGED <<first, world>>

NextConc ==
    \/ CallConc
    \/ AllocateConc
    \/ Row0Conc
    \/ Col0Conc
    \/ BoundaryConc
    \/ KernelConc
    \/ ReturnConc
    \/ ReleaseConc

SpecConc == Init /\ [][NextConc]_vars

(***************************************************************************)
(* One call at a time whose kernel blocks are placed in any order.         *)
(***************************************************************************)
CallAny == Call(1, AnyOrders) /\ UNCHANGED <<first, world>>

AllocateAny == DoAllocate(1) /\ UNCHANGED <<first, world>>

Row0Any == DoRow0(1) /\ UNCHANGED <<first, world>>

Col0Any == DoCol0(1) /\ UNCHANGED <<first, world>>

BoundaryAny == DoBoundary(1) /\ UNCHANGED <<first, world>>

KernelAnySeq == KernelAny(1) /\ UNCHANGED <<first, world>>

ReturnAny == DoReturn(1) /\ UNCHANGED <<first, world>>

ReleaseAny == Release(1) /\ UNCHANGED <<first, world>>

NextAny ==
    \/ CallAny
    \/ AllocateAny
    \/ Row0Any
    \/ Col0Any
    \/ BoundaryAny
    \/ KernelAnySeq
    \/ ReturnAny
    \/ ReleaseAny

SpecAny == Init /\ [][NextAny]_vars

(***************************************************************************)
(* A Visual or an Emoji and the calls that set its rotation.               *)
(***************************************************************************)
core == <<FPP_KERNELS, call, first>>

NewVisualStep == NewVisual("Visual") /\ UNCHANGED <<core, card, reply, disk>>

NewEmojiStep == NewVisual("Emoji") /\ UNCHANGED <<core, card, reply, disk>>

RotateStep == Rotate /\ UNCHANGED <<core, card, reply, disk>>

RotateRandomlyStep == RotateRandomly /\ UNCHANGED <<core, card, reply, disk>>

ResetRotationStep == ResetRotation /\ UNCHANGED <<core, card, reply, disk>>

DropVisualStep == DropVisual /\ UNCHANGED <<core, card, reply, disk>>

NextVisual ==
    \/ NewVisualStep
    \/ NewEmojiStep
    \/ RotateStep
    \/ RotateRandomlyStep
    \/ ResetRotationStep
    \/ DropVisualStep

SpecVisual == Init /\ [][NextVisual]_vars

(***************************************************************************)
(* A Card and the calls of its methods, one after the other.               *)
(***************************************************************************)
\* the lists the cards are made from: FIVE_VALID_EMOJI_NAMES[:n]
CardLists == {SubSeq(FIVE_VALID_EMOJI_NAMES, 1, n) : n \in 1 .. MaxEmojis}

NewCardStep == NewCard(CardLists, {"cci"}) /\ UNCHANGED <<core, visual, disk>>

ShuffleEmojisStep == ShuffleEmojis /\ UNCHANGED <<core, visual, disk>>

RotateEmojisStep == RotateEmojis /\ UNCHANGED <<core, visual, disk>>

ResetEmojiRotationsStep == ResetEmojiRotations /\ UNCHANGED <<core, visual, disk>>

GetLayoutStep == GetLayout /\ UNCHANGED <<core, visual, disk>>

TakeReplyStep == TakeReply /\ UNCHANGED <<core, visual, disk>>

DropCardStep == DropCard /\ UNCHANGED <<core, visual, disk>>

NextCard ==
    \/ NewCardStep
    \/ ShuffleEmojisStep
    \/ RotateEmojisStep
    \/ ResetEmojiRotationsStep
    \/ GetLayoutStep
    \/ TakeReplyStep
    \/ DropCardStep

SpecCard == Init /\ [][NextCard]_vars

(***************************************************************************)
(* The construction of a Card from any list and any packing.               *)
(***************************************************************************)
INVALID_PACKING == "ccid"

\* every list of at most MaxEmojis names, valid or not, repeated or not;
\* FIVE_VALID_EMOJI_NAMES and FIVE_VALID_EMOJI_NAMES * 2
AnyLists ==
    UNION {[1 .. n -> Range(FIVE_VALID_EMOJI_NAMES) \cup {INVALID_EMOJI_NAME}] :
            n \in 0 .. MaxEmojis}
        \cup {FIVE_VALID_EMOJI_NAMES, FIVE_VALID_EMOJI_NAMES \o FIVE_VALID_EMOJI_NAMES}

AnyPackings == Packings \cup {INVALID_PACKING}

NewAnyCardStep == NewCard(AnyLists, AnyPackings) /\ UNCHANGED <<core, visual, disk>>

TakeMadeStep == TakeReply /\ UNCHANGED <<core, visual, disk>>

DropMadeStep == DropCard /\ UNCHANGED <<core, visual, disk>>

NextCardInit ==
    \/ NewAnyCardStep
    \/ TakeMadeStep
    \/ DropMadeStep

SpecCardInit == Init /\ [][NextCardInit]_vars

(***************************************************************************)
(* Decks are made, one call of create_dobble_deck after the other.         *)
(***************************************************************************)
CreateDobbleDeckStep == CreateDobbleDeck /\ UNCHANGED <<core, visual, card>>

TakeDeckStep == TakeReply /\ UNCHANGED <<core, visual, disk>>

NextDeck ==
    \/ CreateDobbleDeckStep
    \/ TakeDeckStep

SpecDeck == Init /\ [][NextDeck]_vars

(***************************************************************************)
(* Vocabulary of the properties.                                           *)
(***************************************************************************)
\* a prime, by the definition: no divisor strictly between 1 and n
Prime(n) == n > 1 /\ \A d \in 2 .. n - 1 : n % d # 0

Supported(n) == Prime(n) \/ n \in {4, 8}

RECURSIVE SumProducts(_, _, _)
SumProducts(u, v, k) ==
    IF k < 0 THEN 0 ELSE u[k] * v[k] + SumProducts(u, v, k - 1)

\* the inner product of two rows of the same length
Dot(u, v) == SumProducts(u, v, Cardinality(DOMAIN u) - 1)

Transpose(M) == [c \in DOMAIN M[0] |-> [r \in DOMAIN M |-> M[r][c]]]

\* A . B^T
TimesTransposed(A, B) == [r \in DOMAIN A |-> [c \in DOMAIN B |-> Dot(A[r], B[c])]]

\* n.I + J of the size of a plane of order n
BruckRyser(n) ==
    [r \in 0 .. n * n + n |-> [c \in 0 .. n * n + n |-> IF r = c THEN n + 1 ELSE 1]]

Ones(row) == {c \in DOMAIN row : row[c] = 1}

\* thread t holds the matrix a compute_incidence_matrix(order) call returned
ReturnedFor(t, order) ==
    /\ call[t].op = "compute_incidence_matrix"
    /\ call[t].pc = "done"
    /\ call[t].order = order

Computing(t) == call[t].op = "compute_incidence_matrix"

(***************************************************************************)
(* C1: for every prime order n of the model (2, 3, 5, 7), the matrix M     *)
(* returned by compute_incidence_matrix(n) satisfies M.M^T = n.I + J, and   *)
(* any two distinct rows have a 1 in exactly one common column.            *)
(***************************************************************************)
C1_PrimeDesign ==
    \A t \in Threads : \A n \in Orders :
        (Prime(n) /\ ReturnedFor(t, n)) =>
            LET M == call[t].result
            IN  /\ TimesTransposed(M, M) = BruckRyser(n)
                /\ \A r1, r2 \in DOMAIN M :
                      r1 # r2 => Cardinality(Ones(M[r1]) \cap Ones(M[r2])) = 1

C1_Witness ==
    /\ ReturnedFor(1, 7)
    /\ call[1].prime
    /\ Ones(call[1].result[56]) \cap Ones(call[1].result[55]) # {}

(***************************************************************************)
(* C2: for the prime powers 4 and 8 the matrix built from the kernel       *)
(* table satisfies M.M^T = n.I + J: every row has n+1 ones and two         *)
(* distinct rows share exactly one column.                                 *)
(***************************************************************************)
C2_PrimePowerDesign ==
    \A t \in Threads : \A n \in {4, 8} :
        /\ (Computing(t) /\ call[t].order = n) => call[t].pc # "raised"
        /\ ReturnedFor(t, n) =>
            LET M == call[t].result
            IN  /\ TimesTransposed(M, M) = BruckRyser(n)
                /\ \A r \in DOMAIN M : Cardinality(Ones(M[r])) = n + 1
                /\ \A r1, r2 \in DOMAIN M :
                      r1 # r2 => Cardinality(Ones(M[r1]) \cap Ones(M[r2])) = 1

C2_Witness ==
    /\ ReturnedFor(1, 8)
    /\ ~call[1].prime
    /\ call[1].result[72][65 + M4[8] - 1] = 1

(***************************************************************************)
(* C3: for every supported order n, every row and every column of the      *)
(* returned matrix contains exactly n+1 ones.                              *)
(***************************************************************************)
C3_RowColumnWeight ==
    \A t \in Threads : \A n \in Orders :
        (Supported(n) /\ ReturnedFor(t, n)) =>
            LET M == call[t].result
                T == Transpose(M)
            IN  /\ \A r \in DOMAIN M : Cardinality(Ones(M[r])) = n + 1
                /\ \A c \in DOMAIN T : Cardinality(Ones(T[c])) = n + 1

C3_Witness ==
    /\ ReturnedFor(1, 5)
    /\ Cardinality(Ones(call[1].result[30])) = 6
    /\ Cardinality(Ones(Transpose(call[1].result)[30])) = 6

(***************************************************************************)
(* C4: compute_incidence_matrix(order) returns a matrix if and only if     *)
(* order is a prime or a key of the kernel table (4 or 8); for every other *)
(* integer (0, 1, negatives, 6, 9, 14, 16, 25) it raises ValueError.       *)
(* Stated on every state of a call: a supported order never raises, an     *)
(* unsupported one has raised ValueError with nothing returned.            *)
(***************************************************************************)
C4_AcceptsExactlySupported ==
    \A t \in Threads :
        Computing(t) =>
            IF Supported(call[t].order)
            THEN call[t].pc # "raised" /\ call[t].exc = "none"
            ELSE /\ call[t].pc = "raised"
                 /\ call[t].exc = "ValueError"
                 /\ call[t].result = <<>>

C4_Witness ==
    /\ Computing(1)
    /\ call[1].order = 9
    /\ call[1].pc = "raised"
    /\ call[1].exc = "ValueError"

(***************************************************************************)
(* C5: for every supported order the result is a square matrix with        *)
(* order^2+order+1 rows and as many columns, and every entry is 0 or 1.    *)
(***************************************************************************)
C5_ShapeAndBinary ==
    \A t \in Threads : \A n \in Orders :
        (Supported(n) /\ ReturnedFor(t, n)) =>
            LET M == call[t].result
                size == n * n + n + 1
            IN  /\ DOMAIN M = 0 .. size - 1
                /\ \A r \in DOMAIN M :
                      /\ DOMAIN M[r] = 0 .. size - 1
                      /\ \A c \in DOMAIN M[r] : M[r][c] \in {0, 1}

C5_Witness ==
    /\ ReturnedFor(1, 4)
    /\ NumRows(call[1].result) = 21
    /\ NumCols(call[1].result) = 21

(***************************************************************************)
(* C6: compute_incidence_matrix(2) returns exactly the 7 x 7 matrix of the *)
(* docstring and of test_compute_incidence_matrix_with_small_prime_number. *)
(***************************************************************************)
\* a literal matrix, given by its rows, as an array indexed from 0
Literal(rows) ==
    [r \in 0 .. Len(rows) - 1 |-> [c \in 0 .. Len(rows[r + 1]) - 1 |-> rows[r + 1][c + 1]]]

ExpectedOrder2 ==
    Literal(<< <<1, 1, 1, 0, 0, 0, 0>>,
               <<1, 0, 0, 1, 1, 0, 0>>,
               <<1, 0, 0, 0, 0, 1, 1>>,
               <<0, 1, 0, 1, 0, 1, 0>>,
               <<0, 1, 0, 0, 1, 0, 1>>,
               <<0, 0, 1, 1, 0, 0, 1>>,
               <<0, 0, 1, 0, 1, 1, 0>> >>)

C6_LiteralOrder2 ==
    \A t \in Threads :
        /\ (Computing(t) /\ call[t].order = 2) => call[t].pc # "raised"
        /\ ReturnedFor(t, 2) => call[t].result = ExpectedOrder2

C6_Witness == ReturnedFor(1, 2) /\ call[1].result[6][5] = 1

(***************************************************************************)
(* C7: for every valid permutation s of 1..n, _get_permutation_matrix(s)   *)
(* returns the n x n matrix whose entry (row, col) is 1 exactly when       *)
(* col = s[row] - 1 and 0 otherwise; [2,4,1,3] gives 0100, 0001, 1000,     *)
(* 0010.                                                                   *)
(***************************************************************************)
\* a permutation of 1..n, n >= 1: every value of 1..n at exactly one place
IsPermutation(p) ==
    /\ Len(p) > 0
    /\ \A v \in 1 .. Len(p) : Cardinality({k \in DOMAIN p : p[k] = v}) = 1
    /\ \A k \in DOMAIN p : p[k] \in 1 .. Len(p)

BuilderCalled(t) == call[t].op = "_get_permutation_matrix"

ExpectedPermutationMatrix ==
    Literal(<< <<0, 1, 0, 0>>,
               <<0, 0, 0, 1>>,
               <<1, 0, 0, 0>>,
               <<0, 0, 1, 0>> >>)

C7_PermutationMatrix ==
    \A t \in Threads :
        LET s == call[t].permutation
            n == Len(s)
        IN  /\ (BuilderCalled(t) /\ IsPermutation(s)) =>
                  /\ call[t].pc = "done"
                  /\ call[t].result =
                        [row \in 0 .. n - 1 |-> [col \in 0 .. n - 1 |->
                            IF col = At(s, row) - 1 THEN 1 ELSE 0]]
            /\ (BuilderCalled(t) /\ s = <<2, 4, 1, 3>>) =>
                  call[t].result = ExpectedPermutationMatrix

C7_Witness ==
    /\ BuilderCalled(1)
    /\ call[1].permutation = <<2, 4, 1, 3>>
    /\ call[1].pc = "done"
    /\ call[1].result[1][3] = 1

(***************************************************************************)
(* C8: the validation accepts a sequence if and only if it is non-empty    *)
(* and its set of values is exactly 1..len; every other sequence           *)
(* ([1,1,3,4,5], [1,2,2,3,4], [4,1,2], [2,1,4], [0,1,2,3,4], []) is        *)
(* rejected with ValueError by the matrix builder and reported invalid by  *)
(* is_valid_permutation.                                                   *)
(***************************************************************************)
Acceptable(p) == Len(p) > 0 /\ {p[k] : k \in 1 .. Len(p)} = 1 .. Len(p)

RejectedExamples ==
    { <<1, 1, 3, 4, 5>>, <<1, 2, 2, 3, 4>>, <<4, 1, 2>>, <<2, 1, 4>>,
      <<0, 1, 2, 3, 4>>, <<>> }

C8_PermutationValidation ==
    \A t \in Threads :
        LET p == call[t].permutation
        IN  /\ BuilderCalled(t) =>
                  /\ call[t].pc = (IF Acceptable(p) THEN "done" ELSE "raised")
                  /\ call[t].exc = (IF Acceptable(p) THEN "none" ELSE "ValueError")
                  /\ p \in RejectedExamples => call[t].pc = "raised"
                  /\ Acceptable(p) <=> IsPermutation(p)
            /\ call[t].op = "is_valid_permutation" =>
                  /\ call[t].answer <=> Acceptable(p)
                  /\ p \in RejectedExamples => ~call[t].answer

C8_Witness ==
    /\ BuilderCalled(1)
    /\ call[1].permutation = <<1, 2, 2, 3, 4>>
    /\ call[1].pc = "raised"
    /\ call[1].exc = "ValueError"

(***************************************************************************)
(* C9: compute_incidence_matrix is deterministic: a call with the order of *)
(* an earlier call, in any state reached after any sequence of calls,      *)
(* returns the bit-identical matrix, and a call that failed fails in the   *)
(* same way again.                                                         *)
(***************************************************************************)
C9_Deterministic ==
    \A t \in Threads :
        (first.seen /\ Finished(call[t]) /\ call[t].order = first.order) =>
            /\ call[t].exc = first.exc
            /\ call[t].pc = (IF first.exc = "none" THEN "done" ELSE "raised")
            /\ call[t].result = first.result

C9_Witness ==
    /\ first.seen
    /\ first.again
    /\ first.order = 4
    /\ ReturnedFor(1, 4)
    /\ call[1].result = first.result
    /\ NumRows(first.result) = 21

(***************************************************************************)
(* C10: when calls of compute_incidence_matrix run concurrently with no    *)
(* lock, under every interleaving of their steps each call returns exactly *)
(* the matrix (or raises the error) it yields when run alone, and the      *)
(* kernel table, the only shared data, is as it was.                       *)
(***************************************************************************)
C10_ConcurrentAsAlone ==
    /\ FPP_KERNELS = PERMUTATIONS
    /\ \A t \in Threads :
          Finished(call[t]) =>
              LET alone == compute_incidence_matrix(call[t].order, PERMUTATIONS)
              IN  /\ call[t].exc = alone.exc
                  /\ call[t].result = alone.value

C10_Witness ==
    /\ ReturnedFor(1, 3)
    /\ call[2].op = "compute_incidence_matrix"
    /\ call[2].order = 4
    /\ call[2].pc = "kernel"
    /\ call[2].i = 2
    /\ call[1].result = compute_incidence_matrix(3, PERMUTATIONS).value

(***************************************************************************)
(* C11: the kernel table is never modified: after any sequence of          *)
(* compute_incidence_matrix and _get_permutation_matrix calls, successful  *)
(* or failing, of prime or prime-power order, every entry of the table     *)
(* equals its initial value.                                               *)
(***************************************************************************)
C11_KernelTableUnchanged ==
    /\ DOMAIN FPP_KERNELS = {4, 8}
    /\ \A n \in {4, 8} :
          /\ Len(FPP_KERNELS[n]) = n - 1
          /\ \A i \in 1 .. n - 1 :
                /\ Len(FPP_KERNELS[n][i]) = n - 1
                /\ \A j \in 1 .. n - 1 :
                      /\ Len(FPP_KERNELS[n][i][j]) = n
                      /\ \A k \in 1 .. n :
                            FPP_KERNELS[n][i][j][k] = PERMUTATIONS[n][i][j][k]

\* a prime-power call has read the last cell of its grid
C11_Witness ==
    /\ ReturnedFor(1, 8)
    /\ FPP_KERNELS[8][7][7] = M4
    /\ call[1].result[72][68] = 1

(***************************************************************************)
(* C12: compute_incidence_matrix fails only with the ValueError of an      *)
(* invalid order or of an invalid permutation, and for an order that       *)
(* passes validation it raises neither: every permutation handed to the    *)
(* matrix builder, from the closed form or from the kernel table at        *)
(* [order][i-1][j-1], is a permutation of 1..order, and every table lookup *)
(* is within the table.                                                    *)
(***************************************************************************)
\* what the pass of the kernel loop about to run hands to the builder
Handed(f) ==
    IF f.prime
    THEN Returned(PrimePermutation(f.order, f.i, f.j))
    ELSE KernelLookup(FPP_KERNELS, f.order, f.i, f.j)

C12_NoFailureAfterValidation ==
    \A t \in Threads :
        Computing(t) =>
            /\ call[t].exc \in {"none", "ValueError"}
            /\ call[t].pc = "raised" => ~Supported(call[t].order)
            /\ (call[t].pc = "kernel" /\ call[t].i > 0 /\ call[t].j > 0) =>
                  /\ Handed(call[t]).exc = "none"
                  /\ Len(Handed(call[t]).value) = call[t].order
                  /\ IsPermutation(Handed(call[t]).value)

C12_Witness ==
    /\ Running(1, "kernel")
    /\ call[1].order = 8
    /\ call[1].i = 7
    /\ call[1].j = 7
    /\ Handed(call[1]).value = M4

(***************************************************************************)
(* C13: is_prime answers True exactly for the integers above 1 that have   *)
(* no divisor d with 1 < d < num, and False for 0, 1, every negative       *)
(* integer and every composite, the perfect squares 4, 9, 25, 49 included. *)
(***************************************************************************)
C13_IsPrimeExact ==
    \A t \in Threads :
        (call[t].op = "is_prime" /\ call[t].pc = "done") =>
            /\ call[t].answer <=> Prime(call[t].num)
            /\ call[t].num <= 1 => ~call[t].answer
            /\ call[t].num \in {4, 9, 25, 49} => ~call[t].answer

C13_Witness ==
    /\ call[1].op = "is_prime"
    /\ call[1].pc = "done"
    /\ call[1].num = 49
    /\ ~call[1].answer

(***************************************************************************)
(* C14: is_prime_power answers True exactly for the integers above 1 of    *)
(* the form p^k with p prime and k >= 1 (every prime, 4, 8, 9, 243) and    *)
(* False for 0, 1, the negatives and the numbers with two distinct prime   *)
(* factors (6, 10, 10000).                                                 *)
(***************************************************************************)
RECURSIVE IsPowerOf(_, _)
IsPowerOf(n, p) == n = 1 \/ (n % p = 0 /\ IsPowerOf(n \div p, p))

PrimePower(n) == n > 1 /\ \E p \in 2 .. n : n % p = 0 /\ Prime(p) /\ IsPowerOf(n, p)

C14_IsPrimePowerExact ==
    \A t \in Threads :
        (call[t].op = "is_prime_power" /\ call[t].pc = "done") =>
            (call[t].answer <=> PrimePower(call[t].num))

(***************************************************************************)
(* C15: an invalid order and an invalid permutation are detected at the    *)
(* start of the operation, before a matrix is allocated or a cell is       *)
(* written: a call that raised has no matrix and no result, and a call     *)
(* that has a matrix or a result had a valid argument.                     *)
(***************************************************************************)
C15_FailsBeforeAllocation ==
    \A t \in Threads :
        /\ Computing(t) =>
              /\ call[t].pc = "raised" =>
                    /\ ~Supported(call[t].order)
                    /\ call[t].incidence_matrix = <<>>
                    /\ call[t].result = <<>>
                    /\ call[t].start = 0
              /\ call[t].incidence_matrix # <<>> => Supported(call[t].order)
              /\ call[t].pc = "allocate" =>
                    Supported(call[t].order) /\ call[t].incidence_matrix = <<>>
        /\ BuilderCalled(t) =>
              /\ call[t].pc = "raised" =>
                    ~Acceptable(call[t].permutation) /\ call[t].result = <<>>
              /\ call[t].pc = "done" => Acceptable(call[t].permutation)

C15_Witness ==
    /\ Computing(1)
    /\ call[1].pc = "raised"
    /\ call[1].order = 14
    /\ call[1].incidence_matrix = <<>>
    /\ call[1].result = <<>>

(***************************************************************************)
(* C16: for every valid permutation of 1..n the matrix returned by         *)
(* _get_permutation_matrix has exactly one 1 in each row and exactly one 1 *)
(* in each column, and the permutation can be read back from the matrix:   *)
(* two different permutations give two different matrices.                 *)
(***************************************************************************)
\* the permutation a matrix stands for: the 1-indexed column of the 1 of
\* each row
ReadBack(M) ==
    [k \in 1 .. NumRows(M) |-> 1 + CHOOSE c \in DOMAIN M[k - 1] : M[k - 1][c] = 1]

ValidPermutations == {p \in PermutationInputs : Acceptable(p)}

C16_OneOnePerLineAndInjective ==
    \A t \in Threads :
        (BuilderCalled(t) /\ call[t].pc = "done") =>
            LET M == call[t].result
                n == Len(call[t].permutation)
            IN  /\ \A r \in 0 .. n - 1 : Cardinality(Ones(M[r])) = 1
                /\ \A c \in 0 .. n - 1 :
                      Cardinality({r \in 0 .. n - 1 : M[r][c] = 1}) = 1
                /\ ReadBack(M) = call[t].permutation
                /\ \A q \in ValidPermutations :
                      q # call[t].permutation =>
                          get_permutation_matrix(q).value # M

C16_Witness ==
    /\ BuilderCalled(1)
    /\ call[1].pc = "done"
    /\ call[1].permutation = <<2, 3, 1>>
    /\ call[1].result[0][1] = 1
    /\ call[1].result[1][2] = 1
    /\ call[1].result[2][0] = 1

(***************************************************************************)
(* C17: in the matrix returned for a supported order n, row 0 has its ones *)
(* exactly in columns 0..n and column 0 exactly in rows 0..n; for k in     *)
(* 1..n, row k has its ones exactly at column 0 and at columns             *)
(* n+1+(k-1)n .. n+kn, and column k exactly at row 0 and at the same rows. *)
(* The boundary rows and columns mirror each other and the ranges of       *)
(* k = 1..n partition the indices n+1 .. n^2+n.                            *)
(***************************************************************************)
ColumnOnes(M, c) == {r \in DOMAIN M : M[r][c] = 1}

BoundaryRange(n, k) == (n + 1 + (k - 1) * n) .. (n + k * n)

C17_BoundaryRowsAndColumns ==
    \A t \in Threads :
        (Computing(t) /\ call[t].pc = "done") =>
            LET M == call[t].result
                n == call[t].order
            IN  /\ Ones(M[0]) = 0 .. n
                /\ ColumnOnes(M, 0) = 0 .. n
                /\ \A k \in 1 .. n :
                      /\ Ones(M[k]) = {0} \cup BoundaryRange(n, k)
                      /\ ColumnOnes(M, k) = {0} \cup BoundaryRange(n, k)
                /\ \A k \in 0 .. n : \A c \in DOMAIN M : M[k][c] = M[c][k]
                /\ UNION {BoundaryRange(n, k) : k \in 1 .. n} = (n + 1) .. (n * n + n)
                /\ \A k, l \in 1 .. n :
                      k # l => BoundaryRange(n, k) \cap BoundaryRange(n, l) = {}

C17_Witness ==
    /\ ReturnedFor(1, 3)
    /\ Ones(call[1].result[2]) = {0, 7, 8, 9}
    /\ ColumnOnes(call[1].result, 2) = {0, 7, 8, 9}

(***************************************************************************)
(* C18: in the matrix returned for a supported order n, for all i, j in    *)
(* 0..n-1 the n x n sub-matrix at offset (n+1+i*n, n+1+j*n) is a           *)
(* permutation matrix, and it is the identity whenever i = 0 or j = 0.     *)
(***************************************************************************)
SubMatrix(M, r0, c0, n) ==
    [r \in 0 .. n - 1 |-> [c \in 0 .. n - 1 |-> M[r0 + r][c0 + c]]]

IsPermutationMatrix(B) ==
    /\ \A r \in DOMAIN B : \A c \in DOMAIN B[r] : B[r][c] \in {0, 1}
    /\ \A r \in DOMAIN B : Cardinality(Ones(B[r])) = 1
    /\ \A c \in DOMAIN B : Cardinality(ColumnOnes(B, c)) = 1

KernelOf(M, n, i, j) == SubMatrix(M, n + 1 + i * n, n + 1 + j * n, n)

C18_KernelBlocks ==
    \A t \in Threads :
        (Computing(t) /\ call[t].pc = "done") =>
            LET M == call[t].result
                n == call[t].order
            IN  \A i, j \in 0 .. n - 1 :
                    /\ IsPermutationMatrix(KernelOf(M, n, i, j))
                    /\ (i = 0 \/ j = 0) => KernelOf(M, n, i, j) = Eye(n)

C18_Witness ==
    /\ ReturnedFor(1, 4)
    /\ KernelOf(call[1].result, 4, 0, 3) = Eye(4)
    /\ KernelOf(call[1].result, 4, 3, 0) = Eye(4)
    /\ KernelOf(call[1].result, 4, 2, 3) # Eye(4)
    /\ IsPermutationMatrix(KernelOf(call[1].result, 4, 2, 3))

(***************************************************************************)
(* C19: for a prime order n and i, j in 1..n-1, the permutation used for   *)
(* block (i, j) starts at p[0] = leading_entry = (1 + i*j) mod n, with 0   *)
(* mapped to n, and continues as p[k] = (k + leading_entry) mod n, with 0  *)
(* mapped to n: a cyclic progression holding each value of 1..n once.      *)
(***************************************************************************)
OneIndexed(v, n) == IF v % n = 0 THEN n ELSE v % n

LeadingEntry(n, i, j) == OneIndexed(1 + i * j, n)

\* p[k] of the claim is element k + 1 of the sequence
CyclicProgression(n, i, j) ==
    [k \in 1 .. n |-> OneIndexed((k - 1) + LeadingEntry(n, i, j), n)]

C19_PrimeBlockPermutation ==
    \A t \in Threads :
        /\ (Computing(t) /\ call[t].pc = "done" /\ Prime(call[t].order)) =>
              LET M == call[t].result
                  n == call[t].order
              IN  \A i, j \in 1 .. n - 1 :
                      LET p == ReadBack(KernelOf(M, n, i, j))
                      IN  /\ p[1] = LeadingEntry(n, i, j)
                          /\ p = CyclicProgression(n, i, j)
                          /\ \A v \in 1 .. n :
                                Cardinality({k \in 1 .. n : p[k] = v}) = 1
        /\ (Running(t, "kernel") /\ Prime(call[t].order)
                /\ call[t].i > 0 /\ call[t].j > 0) =>
              Handed(call[t]).value =
                  CyclicProgression(call[t].order, call[t].i, call[t].j)

C19_Witness ==
    /\ ReturnedFor(1, 5)
    /\ ReadBack(KernelOf(call[1].result, 5, 2, 2)) = <<5, 1, 2, 3, 4>>
    /\ ReadBack(KernelOf(call[1].result, 5, 1, 1)) = <<2, 3, 4, 5, 1>>

(***************************************************************************)
(* C20: the matrix compute_incidence_matrix returns does not depend on the *)
(* order in which the order^2 kernel blocks are computed and placed: every *)
(* ordering of the block placements, after the boundary steps, ends in the *)
(* matrix the loop's own order gives.                                      *)
(***************************************************************************)
C20_AnyOrderSameMatrix ==
    \A t \in Threads :
        (Computing(t) /\ call[t].pc = "done") =>
            LET alone == compute_incidence_matrix(call[t].order, PERMUTATIONS)
            IN  /\ alone.exc = "none"
                /\ call[t].result = alone.value

\* the last block of the loop's order was placed before the first
C20_Witness ==
    /\ Running(1, "kernel")
    /\ call[1].order = 3
    /\ call[1].placed = {<<2, 2>>, <<1, 0>>}
    /\ call[1].incidence_matrix[10][11] = 1
    /\ call[1].incidence_matrix[7][4] = 1
    /\ call[1].incidence_matrix[4][4] = 0

(***************************************************************************)
(* C21, as stated: for each supported prime-power order n (4 and 8) the    *)
(* kernel table holds an n x n grid of permutations, one permutation of    *)
(* 1..n per cell.                                                          *)
(***************************************************************************)
GridOfPermutations(grid, side, n) ==
    /\ Len(grid) = side
    /\ \A i \in 1 .. Len(grid) :
          /\ Len(grid[i]) = side
          /\ \A j \in 1 .. Len(grid[i]) :
                Len(grid[i][j]) = n /\ IsPermutation(grid[i][j])

C21_GridNByN ==
    \A n \in DOMAIN FPP_KERNELS : GridOfPermutations(FPP_KERNELS[n], n, n)

(***************************************************************************)
(* C21, amended: for each supported prime-power order n (4 and 8) the      *)
(* kernel table holds an (n-1) x (n-1) grid of permutations, one           *)
(* permutation of 1..n per cell: the cells of the blocks (i, j) with       *)
(* i, j in 1..n-1.  The blocks with i = 0 or j = 0 are not in the table.   *)
(***************************************************************************)
C21_GridOfKernelPermutations ==
    /\ DOMAIN FPP_KERNELS = {4, 8}
    /\ \A n \in DOMAIN FPP_KERNELS : GridOfPermutations(FPP_KERNELS[n], n - 1, n)

C21_Witness ==
    /\ Running(1, "kernel")
    /\ call[1].order = 4
    /\ call[1].i = 3
    /\ call[1].j = 3
    /\ FPP_KERNELS[4][3][3] = <<3, 4, 1, 2>>
    /\ Len(FPP_KERNELS[4]) = 3

(***************************************************************************)
(* C22: for a Visual or an Emoji, after construction and any sequence of   *)
(* rotate(degrees) and reset_rotation() calls, 0 <= rotation < 360.        *)
(***************************************************************************)
\* 0 <= x < 360 for a float of the model
InTurn(x) ==
    /\ 0 <= x.deg
    /\ x.deg < 360
    /\ x.tiny >= 0

C22_RotationInRange ==
    visual.class # "none" => InTurn(visual.rotation)

(***************************************************************************)
(* C23: shuffle_emojis(permutation=p), for p a valid permutation of        *)
(* 1..num_emojis, sets the new emoji_names[k] to the old                   *)
(* emoji_names[p[k] - 1] for every position k (the identity leaves the     *)
(* order unchanged), keeps the set of names and num_emojis, and returns    *)
(* the new list.                                                           *)
(***************************************************************************)
ShuffledWith(p) == reply.op = "shuffle_emojis" /\ reply.arg = p

C23_ShuffleByPermutation ==
    (/\ reply.op = "shuffle_emojis"
     /\ Len(reply.arg) = reply.before.num_emojis
     /\ Acceptable(reply.arg)) =>
            LET old == reply.before.emoji_names
                p == reply.arg
            IN  /\ reply.exc = "none"
                /\ Len(card.emoji_names) = Len(old)
                /\ \A k \in 1 .. Len(old) : card.emoji_names[k] = old[p[k]]
                /\ (\A k \in 1 .. Len(p) : p[k] = k) => card.emoji_names = old
                /\ Range(card.emoji_names) = Range(old)
                /\ card.num_emojis = reply.before.num_emojis
                /\ card.emojis = reply.before.emojis
                /\ reply.value = card.emoji_names

C23_Witness ==
    /\ ShuffledWith(<<3, 1, 2>>)
    /\ reply.before.emoji_names = <<"unicorn", "dolphin", "cheese wedge">>
    /\ card.emoji_names = <<"cheese wedge", "unicorn", "dolphin">>
    /\ reply.value = card.emoji_names

(***************************************************************************)
(* C24: when a Card is constructed with a valid packing that is not        *)
(* available for its number of emojis (1 to 4 emojis, a packing other than *)
(* "cci"), a warning is issued and the packing attribute of the card is    *)
(* "cci" after construction.                                               *)
(***************************************************************************)
C24_FallsBackToCci ==
    (/\ reply.op = "Card"
     /\ reply.exc = "none"
     /\ card.num_emojis \in 1 .. 4
     /\ reply.arg[2] \in Packings \ {"cci"}) =>
        /\ "using cci instead" \in reply.warnings
        /\ card.packing = "cci"

(***************************************************************************)
(* C25: for every supported order n, the matrix M returned by              *)
(* compute_incidence_matrix(n) satisfies the dual identity                 *)
(* M^T.M = n.I + J: any two distinct columns have a 1 in exactly one       *)
(* common row.                                                             *)
(***************************************************************************)
C25_DualDesign ==
    \A t \in Threads : \A n \in Orders :
        (Supported(n) /\ ReturnedFor(t, n)) =>
            LET T == Transpose(call[t].result)
            IN  /\ TimesTransposed(T, T) = BruckRyser(n)
                /\ \A c1, c2 \in DOMAIN T :
                      c1 # c2 => Cardinality(Ones(T[c1]) \cap Ones(T[c2])) = 1

\* the first and the last symbol of the plane of order 4 share one card
C25_Witness ==
    /\ ReturnedFor(1, 4)
    /\ ~call[1].prime
    /\ LET T == Transpose(call[1].result)
       IN  Cardinality(Ones(T[0]) \cap Ones(T[20])) = 1

\* the cells the statements of kind step have assigned in thread t's call
CellsOf(t, step) == UNION {w.cells : w \in {x \in call[t].writes : x.step = step}}

\* the number of cells of the slice a statement of kind step assigns
SliceLength(step, order) ==
    CASE step = "row0" -> order + 1
      [] step = "col0" -> order + 1
      [] step = "boundary" -> 2 * order
      [] step = "kernel" -> order * order

\* what two different statements may both assign
Shared(w1, w2) ==
    IF {w1.step, w2.step} = {"row0", "col0"} THEN {<<0, 0>>} ELSE {}

(***************************************************************************)
(* C26: in compute_incidence_matrix the construction steps write disjoint  *)
(* cells, except cell (0,0) which both the row-0 and the column-0 step     *)
(* set: the order^2 kernel blocks tile exactly rows and columns            *)
(* order+1..size-1 without overlapping each other or a boundary cell, no   *)
(* write falls outside the size x size matrix, and the cells (r, c) with   *)
(* 1 <= r, c <= order are never written and stay 0.                        *)
(***************************************************************************)
C26_DisjointWrites ==
    \A t \in Threads :
        (Computing(t) /\ call[t].pc \notin {"allocate", "raised"}) =>
            LET n == call[t].order
                size == n * n + n + 1
                W == call[t].writes
                M == IF call[t].pc = "done"
                     THEN call[t].result ELSE call[Frame(t)].incidence_matrix
            IN  /\ \A w \in W :
                      /\ w.cells \subseteq (0 .. size - 1) \X (0 .. size - 1)
                      /\ Cardinality(w.cells) = SliceLength(w.step, n)
                      /\ w.cells \cap ((1 .. n) \X (1 .. n)) = {}
                /\ \A r, c \in 1 .. n : M[r][c] = 0
                /\ \A w \in W :
                      w.step = "kernel" =>
                          w.cells \subseteq (n + 1 .. size - 1) \X (n + 1 .. size - 1)
                /\ \A w1, w2 \in W :
                      w1 # w2 => (w1.cells \cap w2.cells) = Shared(w1, w2)
                /\ call[t].pc \in {"return", "done"} =>
                      /\ CellsOf(t, "kernel") = (n + 1 .. size - 1) \X (n + 1 .. size - 1)
                      /\ Cardinality({w \in W : w.step = "kernel"}) = n * n
                      /\ Cardinality({w \in W : w.step = "boundary"}) = n

\* order 4 is built: 16 kernel blocks, 4 boundary blocks, row 0 and
\* column 0, which share cell (0, 0); the corner square is still 0
C26_Witness ==
    /\ ReturnedFor(1, 4)
    /\ Cardinality(call[1].writes) = 22
    /\ CellsOf(1, "row0") \cap CellsOf(1, "col0") = {<<0, 0>>}
    /\ <<20, 20>> \in CellsOf(1, "kernel")
    /\ call[1].result[4][4] = 0

\* [1, 2, ..., n]
IdentityPermutation(n) == [k \in 1 .. n |-> k]

(***************************************************************************)
(* C27: for a prime order, the special case "identity block when i = 0 or  *)
(* j = 0" agrees with the closed-form formula: leading_entry =             *)
(* (1 + i.j) mod order and p[k] = (k + leading_entry) mod order, with 0    *)
(* mapped to order, evaluated at i = 0 or j = 0 give the identity          *)
(* permutation [1, 2, ..., order], whose permutation matrix is the block   *)
(* np.eye(order) the code places.                                          *)
(***************************************************************************)
C27_IdentityCaseAgrees ==
    \A t \in Threads :
        (/\ Running(t, "kernel")
         /\ Prime(call[t].order)
         /\ (call[t].i = 0 \/ call[t].j = 0)) =>
            LET f == call[t]
                p == PrimePermutation(f.order, f.i, f.j)
            IN  /\ p = IdentityPermutation(f.order)
                /\ get_permutation_matrix(p) =
                      KernelBlock(FPP_KERNELS, f.order, f.prime, f.i, f.j)

\* order 7 at block (3, 0): the code takes np.eye(7), the formula gives
\* leading entry 1 and the permutation 1..7
C27_Witness ==
    /\ Running(1, "kernel")
    /\ call[1].order = 7
    /\ call[1].i = 3
    /\ call[1].j = 0
    /\ PrimePermutation(7, 3, 0) = <<1, 2, 3, 4, 5, 6, 7>>
    /\ KernelBlock(FPP_KERNELS, 7, TRUE, 3, 0).value = Eye(7)

(***************************************************************************)
(* C28: Card.rotate_emojis and Card.reset_emoji_rotations are              *)
(* all-or-nothing: when a call with a list argument raises ValueError (an  *)
(* entry that is not a 2-tuple, or a name that is not on the card), no     *)
(* emoji rotation of the card has changed, including those of the valid    *)
(* entries that precede the bad one in the list.                           *)
(***************************************************************************)
C28_AllOrNothing ==
    (/\ reply.op \in {"rotate_emojis", "reset_emoji_rotations"}
     /\ reply.arg.kind = "list"
     /\ reply.exc = "ValueError") =>
        card.emojis = reply.before.emojis

(***************************************************************************)
(* C29: after any sequence of shuffle_emojis, rotate_emojis and            *)
(* reset_emoji_rotations calls on a Card, get_layout draws at every        *)
(* position k a letter whose rotation equals the rotation of the emoji     *)
(* currently at position k of emoji_names, and on return emoji_names and   *)
(* emojis are the same as before the call.                                 *)
(***************************************************************************)
C29_LayoutMatchesCard ==
    (reply.op = "get_layout" /\ reply.exc = "none") =>
        /\ \A k \in DOMAIN card.emoji_names :
              reply.value[k].rotation =
                  GetImg(card.emoji_names, card.emojis)[k].rotation
        /\ card.emoji_names = reply.before.emoji_names
        /\ card.emojis = reply.before.emojis

(***************************************************************************)
(* C30: create_dobble_deck leaves the file system unchanged whenever it    *)
(* raises: for every failing input (save_dir not a directory, deck         *)
(* directory already exists, fewer emojis than (emojis_per_card-1)^2 +     *)
(* emojis_per_card, or emojis_per_card-1 not a supported order) no deck    *)
(* directory, info directory or CSV file has been created when the error   *)
(* is raised.                                                              *)
(***************************************************************************)
C30_RaiseLeavesDiskUnchanged ==
    (reply.op = "create_dobble_deck" /\ reply.exc # "none") =>
        disk = reply.disk

====
